---- MODULE Spec2Model ----
(***************************************************************************)
(* Checkpointed parallel Chudnovsky summation: the two scripts of the      *)
(* repository, compute_pi_mpmath.py (recurrence, mpmath, pickle) and pi.py *)
(* (factorials, decimal, text), as one state machine over a shared disk.   *)
(*                                                                         *)
(* High-precision values are kept symbolically.  A worker's partial sum is *)
(* the record of the range it summed, a batch sum is the list of partial   *)
(* sums in the order sum() adds them, and the running total is the list of *)
(* batch sums in the order "total += batch_sum" added them.  Two totals    *)
(* that are equal as such lists are bit-identical numbers.                 *)
(***************************************************************************)
EXTENDS Integers, Sequences, FiniteSets

\* ---------------------------------------------------------------- bounds
MaxCpu      == 8    \* cpu_count() ranges over 1..MaxCpu
MaxRounds   == 2    \* a round is dispatched only while k < MaxRounds * batch
MaxRestarts == 2    \* the process is started again at most this often

\* ------------------------------------------------------ program constants
TERMS_PER_BATCH == 900
PRECISION       == 5000000
pi_terms_per_batch == 10
pi_CORES           == 3
pi_PRECISION       == 1000000

VARIABLES
    script,      \* which of the two scripts this installation runs
    cpu,         \* cpu_count() of the machine
    pc,          \* the statement the main process executes next
    k,           \* local k of compute_pi
    total,       \* local total of compute_pi
    start_k,     \* the progress the run was started from
    batches,     \* local batches
    results,     \* local results
    batch_sum,   \* local batch_sum
    pi_val,      \* local pi_val
    raised,      \* the pool: 0, or the task of the round whose worker raised
    disk,        \* the three files
    restarts     \* how often the process has been started again

vars == <<script, cpu, pc, k, total, start_k, batches, results, batch_sum,
          pi_val, raised, disk, restarts>>

\* --------------------------------------------------------------- values
Zero    == <<>>                       \* mpf(0), Decimal(0)
NoValue == [kind |-> "none"]          \* a local that is not bound yet
Absent  == [kind |-> "absent"]        \* os.path.exists(file) is false
Empty   == [kind |-> "empty"]         \* opened for writing, nothing written

Max(a, b) == IF a >= b THEN a ELSE b

\* the number of iterations of "for i in range(a, b)"
RangeLen(a, b) == IF b > a THEN b - a ELSE 0

CORES(c) == Max(c - 1, 1)

\* The partial sum of the terms lo..hi-1, the multiplier having had a0
\* recurrence steps applied when the first term is emitted.
chudnovsky_term_recursive(start_k_, end_k) ==
    [how |-> "recurrence",
     a0  |-> RangeLen(0, start_k_),
     lo  |-> start_k_,
     hi  |-> start_k_ + RangeLen(start_k_, end_k)]

compute_batch(start_k_, batch_size) ==
    chudnovsky_term_recursive(start_k_, start_k_ + batch_size)

\* pi.py: every term is evaluated from the factorials of its own index.
compute_terms(start_k_, end_k) ==
    [how |-> "factorial",
     a0  |-> start_k_,
     lo  |-> start_k_,
     hi  |-> start_k_ + RangeLen(start_k_, end_k)]

\* sum(results): 0 + results[1] + results[2] + ... in list order
ListSum(rs) == rs

\* total += batch_sum
AddBatch(tot, bs) == Append(tot, bs)

\* C / total
DerivePi(tot) == [kind |-> "quotient", of |-> tot]

\* ------------------------------------------------------- serialisation
\* json.dump({"k": k}, f)
JsonDump(n) == [kind |-> "json", k |-> n]
\* mutant: the key is misspelt, the default is returned
JsonLoadK_wrong_key(file) == 0
\* json.load(f).get("k", 0)
JsonLoadK(file) == IF file.kind = "json" THEN file.k ELSE 0
\* pickle.dump(total, f) / pickle.load(f)
PickleDump(tot) == [kind |-> "pickle", val |-> tot]
PickleLoad(file) == file.val
\* f.write(str(total)) / Decimal(f.read().strip())
StrDump(tot) == [kind |-> "text", val |-> tot]
DecimalParse(file) == file.val
\* mp.nstr(pi_val, PRECISION): the first PRECISION digits of the quotient
NstrDump(pv) == [kind |-> "digits", of |-> pv.of, digits |-> PRECISION]
\* str(pi_val) at the decimal context's precision
PiStrDump(pv) == [kind |-> "digits", of |-> pv.of, digits |-> pi_PRECISION + 100]

NoFiles == [pi |-> Absent, progress |-> Absent, sum |-> Absent]

\* ------------------------------------------------------------ the state
Scripts  == {"mpmath", "decimal"}
\* exit0 is the exit with status 0; the others end the process with a
\* traceback (non-zero status) or by the kill
Terminal == {"exit0", "config_error", "load_error", "zero_division",
             "worker_error", "write_error", "keyboard_interrupt", "killed"}

Batch == IF script = "mpmath" THEN TERMS_PER_BATCH ELSE pi_terms_per_batch

Init ==
    /\ script \in Scripts
    /\ cpu \in (IF script = "mpmath" THEN 1..MaxCpu ELSE {4})
    /\ pc = IF script = "mpmath" THEN "m18" ELSE "p87"
    /\ k = 0
    /\ total = Zero
    /\ start_k = 0
    /\ batches = <<>>
    /\ results = <<>>
    /\ batch_sum = Zero
    /\ pi_val = NoValue
    /\ raised = 0
    /\ disk = NoFiles
    /\ restarts = 0

Locals == <<k, total, start_k, batches, results, batch_sum, pi_val, raised>>
Env    == <<script, cpu, restarts>>

Goto(l) == pc' = l

WriteFile(d, name, content) == [d EXCEPT ![name] = content]

\* =================================================== compute_pi_mpmath.py
MpPreTry  == {"m18", "m69", "m71"}
MpTry     == {"m79", "m80", "m80r", "m81", "m82", "m83", "m85", "m86", "m92", "m93",
              "m96", "m97", "m100", "m101", "m103"}
MpHandler == {"m107", "m108", "m109", "m110"}

\* mutant: no check
m_Validate_skipped ==
    /\ script = "mpmath" /\ pc = "m18"
    /\ Goto("m69")
    /\ UNCHANGED <<Locals, Env, disk>>

\* lines 14-19: CORES and the divisibility check, at import
m_Validate ==
    /\ script = "mpmath" /\ pc = "m18"
    /\ IF TERMS_PER_BATCH % CORES(cpu) # 0
          THEN Goto("config_error")
          ELSE Goto("m69")
    /\ UNCHANGED <<Locals, Env, disk>>

\* json.load / pickle.load of a file that was opened for writing and never
\* written raises
get_saved_progress_raises(d) == d.progress = Empty \/ d.sum = Empty

get_saved_progress(d) ==
    <<IF d.progress = Absent THEN 0 ELSE JsonLoadK(d.progress),
      IF d.sum = Absent THEN Zero ELSE PickleLoad(d.sum)>>

\* line 69
m_Load ==
    /\ script = "mpmath" /\ pc = "m69"
    /\ IF get_saved_progress_raises(disk)
          THEN /\ Goto("load_error")
               /\ UNCHANGED <<k, total, start_k>>
          ELSE /\ k' = get_saved_progress(disk)[1]
               /\ total' = get_saved_progress(disk)[2]
               /\ start_k' = get_saved_progress(disk)[1]
               /\ Goto("m71")
    /\ UNCHANGED <<batches, results, batch_sum, pi_val, raised, Env, disk>>

\* lines 70-74: the resume message divides C by total when k is not 0
m_ResumeMessage ==
    /\ script = "mpmath" /\ pc = "m71"
    /\ IF k # 0 /\ total = Zero THEN Goto("zero_division") ELSE Goto("m79")
    /\ UNCHANGED <<Locals, Env, disk>>

\* mutant: the batches are numbered from 1
m_MakeBatches_from_one(k_, cores) ==
    LET batch_size == TERMS_PER_BATCH \div cores
    IN  [i \in 1..cores |-> <<k_ + i * batch_size, batch_size>>]

\* lines 74, 79
m_MakeBatches(k_, cores) ==
    LET batch_size == TERMS_PER_BATCH \div cores
    IN  [i \in 1..cores |-> <<k_ + (i - 1) * batch_size, batch_size>>]

m_Batches ==
    /\ script = "mpmath" /\ pc = "m79"
    /\ k < MaxRounds * TERMS_PER_BATCH
    /\ batches' = m_MakeBatches(k, CORES(cpu))
    /\ Goto("m80")
    /\ UNCHANGED <<k, total, start_k, results, batch_sum, pi_val, raised, Env, disk>>

\* line 80: starmap hands the batches to the pool and blocks; every worker
\* returns its partial sum, or the worker of one task raises
m_Dispatch ==
    /\ script = "mpmath" /\ pc = "m80"
    /\ raised' \in 0..Len(batches)
    /\ Goto("m80r")
    /\ UNCHANGED <<k, total, start_k, batches, results, batch_sum, pi_val, Env, disk>>

\* mutant: the worker's exception is swallowed and the partial sums of the
\* other workers are returned
m_Starmap_swallows ==
    /\ script = "mpmath" /\ pc = "m80r"
    /\ results' = [i \in 1..Len(batches) |->
                      IF i = raised THEN compute_batch(batches[i][1], 0)
                      ELSE compute_batch(batches[i][1], batches[i][2])]
    /\ Goto("m81")
    /\ UNCHANGED <<k, total, start_k, batches, batch_sum, pi_val, raised, Env, disk>>

\* line 80: starmap returns the list of the partial sums in task order, or
\* re-raises the worker's exception, which no handler of compute_pi catches
m_Starmap ==
    /\ script = "mpmath" /\ pc = "m80r"
    /\ IF raised = 0
          THEN /\ results' = [i \in 1..Len(batches) |->
                                 compute_batch(batches[i][1], batches[i][2])]
               /\ Goto("m81")
          ELSE /\ Goto("worker_error")
               /\ UNCHANGED results
    /\ UNCHANGED <<k, total, start_k, batches, batch_sum, pi_val, raised, Env, disk>>

\* line 81
m_Reduce ==
    /\ script = "mpmath" /\ pc = "m81"
    /\ batch_sum' = ListSum(results)
    /\ Goto("m82")
    /\ UNCHANGED <<k, total, start_k, batches, results, pi_val, raised, Env, disk>>

\* mutant: the save is evaluated as soon as the batch sum is added, before
\* k is advanced
m_AddTotal_then_save ==
    /\ script = "mpmath" /\ pc = "m82"
    /\ total' = AddBatch(total, batch_sum)
    /\ Goto("m85")
    /\ UNCHANGED <<k, start_k, batches, results, batch_sum, pi_val, raised, Env, disk>>

\* line 82
m_AddTotal ==
    /\ script = "mpmath" /\ pc = "m82"
    /\ total' = AddBatch(total, batch_sum)
    /\ Goto("m83")
    /\ UNCHANGED <<k, start_k, batches, results, batch_sum, pi_val, raised, Env, disk>>

\* mutant: k += 1
m_NextK_by_one(k_) == k_ + 1

\* line 83
m_NextK(k_) == k_ + TERMS_PER_BATCH

m_AdvanceK ==
    /\ script = "mpmath" /\ pc = "m83"
    /\ k' = m_NextK(k)
    /\ Goto("m85")
    /\ UNCHANGED <<total, start_k, batches, results, batch_sum, pi_val, raised, Env, disk>>

\* line 85: the clock decides
m_CheckSave ==
    /\ script = "mpmath" /\ pc = "m85"
    /\ \E due \in BOOLEAN : Goto(IF due THEN "m86" ELSE "m79")
    /\ UNCHANGED <<Locals, Env, disk>>

\* mutant: the derivation adds the batch sum to total once more
m_DerivePi_adds_again ==
    /\ script = "mpmath" /\ pc = "m86"
    /\ pi_val' = DerivePi(total)
    /\ total' = AddBatch(total, batch_sum)
    /\ Goto("m92")
    /\ UNCHANGED <<k, start_k, batches, results, batch_sum, raised, Env, disk>>

\* lines 86-89
m_DerivePi ==
    /\ script = "mpmath" /\ pc = "m86"
    /\ pi_val' = DerivePi(total)
    /\ Goto("m92")
    /\ UNCHANGED <<k, total, start_k, batches, results, batch_sum, raised, Env, disk>>

\* open(name, "w") truncates the file
OpenForWrite(at, name, next) ==
    /\ pc = at
    /\ disk' = WriteFile(disk, name, Empty)
    /\ Goto(next)
    /\ UNCHANGED <<Locals, Env>>

\* the dump and the close at the end of the with block
DumpAndClose(at, name, content, next) ==
    /\ pc = at
    /\ disk' = WriteFile(disk, name, content)
    /\ Goto(next)
    /\ UNCHANGED <<Locals, Env>>

m_OpenPi        == script = "mpmath" /\ OpenForWrite("m92", "pi", "m93")
m_WritePi       == script = "mpmath" /\ DumpAndClose("m93", "pi", NstrDump(pi_val), "m96")
m_OpenProgress  == script = "mpmath" /\ OpenForWrite("m96", "progress", "m97")
m_WriteProgress == script = "mpmath" /\ DumpAndClose("m97", "progress", JsonDump(k), "m100")
m_OpenSum       == script = "mpmath" /\ OpenForWrite("m100", "sum", "m101")
\* mutant: the batch sum is pickled in place of the total
m_WriteSum_batch_only ==
    script = "mpmath" /\ DumpAndClose("m101", "sum", PickleDump(<<batch_sum>>), "m103")
m_WriteSum      == script = "mpmath" /\ DumpAndClose("m101", "sum", PickleDump(total), "m103")

\* line 103
m_MarkSaved ==
    /\ script = "mpmath" /\ pc = "m103"
    /\ Goto("m79")
    /\ UNCHANGED <<Locals, Env, disk>>

\* line 105: KeyboardInterrupt raised at a statement of the try block
m_Interrupt ==
    /\ script = "mpmath" /\ pc \in MpTry
    /\ Goto("m107")
    /\ UNCHANGED <<Locals, Env, disk>>

\* mutant: the handler is entered on every exception, not only on
\* KeyboardInterrupt
m_FinalOpenProgress_any_exception ==
    /\ script = "mpmath" /\ pc \in {"m107", "worker_error", "write_error"}
    /\ disk' = WriteFile(disk, "progress", Empty)
    /\ Goto("m108")
    /\ UNCHANGED <<Locals, Env>>

\* KeyboardInterrupt before the try block or inside the handler: uncaught
m_InterruptUncaught ==
    /\ script = "mpmath" /\ pc \in MpPreTry \cup MpHandler
    /\ Goto("keyboard_interrupt")
    /\ UNCHANGED <<Locals, Env, disk>>

\* lines 106-111
m_FinalOpenProgress  == script = "mpmath" /\ OpenForWrite("m107", "progress", "m108")
m_FinalWriteProgress == script = "mpmath" /\ DumpAndClose("m108", "progress", JsonDump(k), "m109")
m_FinalOpenSum       == script = "mpmath" /\ OpenForWrite("m109", "sum", "m110")
m_FinalWriteSum      == script = "mpmath" /\ DumpAndClose("m110", "sum", PickleDump(total), "exit0")

\* ================================================================== pi.py
\* lines 34-38, called at line 87
pi_get_saved_progress(d) ==
    IF d.progress = Absent THEN 0 ELSE JsonLoadK(d.progress)

\* lines 43-48
pi_load_total(d) == IF d.sum = Absent THEN Zero ELSE DecimalParse(d.sum)

\* json.load of an empty progress file and Decimal("") raise
pi_load_raises(d) == d.progress = Empty \/ d.sum = Empty

\* lines 87-89 and 42-50: start_k from the progress file, total from the
\* sum file
p_Load ==
    /\ script = "decimal" /\ pc = "p87"
    /\ IF pi_load_raises(disk)
          THEN /\ Goto("load_error")
               /\ UNCHANGED <<k, total, start_k>>
          ELSE /\ start_k' = pi_get_saved_progress(disk)
               /\ k' = pi_get_saved_progress(disk)
               /\ total' = pi_load_total(disk)
               /\ Goto("p54")
    /\ UNCHANGED <<batches, results, batch_sum, pi_val, raised, Env, disk>>

\* line 54: (start, end) pairs of one term each
p_MakeBatches(k_, terms_per_batch) ==
    [i \in 1..terms_per_batch |-> <<k_ + (i - 1), k_ + (i - 1) + 1>>]

p_Batches ==
    /\ script = "decimal" /\ pc = "p54"
    /\ k < MaxRounds * pi_terms_per_batch
    /\ batches' = p_MakeBatches(k, pi_terms_per_batch)
    /\ Goto("p58")
    /\ UNCHANGED <<k, total, start_k, results, batch_sum, pi_val, raised, Env, disk>>

\* lines 57-58: a new pool, the batches handed to it
p_Dispatch ==
    /\ script = "decimal" /\ pc = "p58"
    /\ raised' \in 0..Len(batches)
    /\ Goto("p58r")
    /\ UNCHANGED <<k, total, start_k, batches, results, batch_sum, pi_val, Env, disk>>

\* line 58: starmap returns or re-raises
p_Starmap ==
    /\ script = "decimal" /\ pc = "p58r"
    /\ IF raised = 0
          THEN /\ results' = [i \in 1..Len(batches) |->
                                 compute_terms(batches[i][1], batches[i][2])]
               /\ Goto("p59")
          ELSE /\ Goto("worker_error")
               /\ UNCHANGED results
    /\ UNCHANGED <<k, total, start_k, batches, batch_sum, pi_val, raised, Env, disk>>

\* line 59
p_Reduce ==
    /\ script = "decimal" /\ pc = "p59"
    /\ batch_sum' = ListSum(results)
    /\ Goto("p60")
    /\ UNCHANGED <<k, total, start_k, batches, results, pi_val, raised, Env, disk>>

\* line 60
p_AddTotal ==
    /\ script = "decimal" /\ pc = "p60"
    /\ total' = AddBatch(total, batch_sum)
    /\ Goto("p62")
    /\ UNCHANGED <<k, start_k, batches, results, batch_sum, pi_val, raised, Env, disk>>

\* line 62
p_NextK(k_) == k_ + pi_terms_per_batch

p_AdvanceK ==
    /\ script = "decimal" /\ pc = "p62"
    /\ k' = p_NextK(k)
    /\ Goto("p65")
    /\ UNCHANGED <<total, start_k, batches, results, batch_sum, pi_val, raised, Env, disk>>

\* line 65
p_CheckSave ==
    /\ script = "decimal" /\ pc = "p65"
    /\ \E due \in BOOLEAN : Goto(IF due THEN "p66" ELSE "p54")
    /\ UNCHANGED <<Locals, Env, disk>>

\* lines 66-69
p_DerivePi ==
    /\ script = "decimal" /\ pc = "p66"
    /\ pi_val' = DerivePi(total)
    /\ Goto("p72")
    /\ UNCHANGED <<k, total, start_k, batches, results, batch_sum, raised, Env, disk>>

p_OpenPi        == script = "decimal" /\ OpenForWrite("p72", "pi", "p73")
p_WritePi       == script = "decimal" /\ DumpAndClose("p73", "pi", PiStrDump(pi_val), "p76")
p_OpenProgress  == script = "decimal" /\ OpenForWrite("p76", "progress", "p77")
p_WriteProgress == script = "decimal" /\ DumpAndClose("p77", "progress", JsonDump(k), "p80")
p_OpenSum       == script = "decimal" /\ OpenForWrite("p80", "sum", "p81")
p_WriteSum      == script = "decimal" /\ DumpAndClose("p81", "sum", StrDump(total), "p83")

\* line 83
p_MarkSaved ==
    /\ script = "decimal" /\ pc = "p83"
    /\ Goto("p54")
    /\ UNCHANGED <<Locals, Env, disk>>

\* KeyboardInterrupt: pi.py has no handler
p_Interrupt ==
    /\ script = "decimal" /\ pc \notin Terminal
    /\ Goto("keyboard_interrupt")
    /\ UNCHANGED <<Locals, Env, disk>>

\* ========================================================= storage errors
\* open(name, "w") or the dump raises OSError (disk full, no permission):
\* nothing catches it, in the loop or in the handler.  A failed open leaves
\* the file as it was; a failed dump leaves what open had truncated.
MpWrites == {"m92", "m93", "m96", "m97", "m100", "m101"} \cup MpHandler
PiWrites == {"p72", "p73", "p76", "p77", "p80", "p81"}

m_WriteFails ==
    /\ script = "mpmath" /\ pc \in MpWrites
    /\ Goto("write_error")
    /\ UNCHANGED <<Locals, Env, disk>>

p_WriteFails ==
    /\ script = "decimal" /\ pc \in PiWrites
    /\ Goto("write_error")
    /\ UNCHANGED <<Locals, Env, disk>>

\* ============================================================ environment
Fresh ==
    /\ k' = 0
    /\ total' = Zero
    /\ start_k' = 0
    /\ batches' = <<>>
    /\ results' = <<>>
    /\ batch_sum' = Zero
    /\ pi_val' = NoValue
    /\ raised' = 0

\* the process is killed (SIGKILL, power loss): its memory is gone, the
\* files stay as they are
Kill ==
    /\ pc \notin Terminal
    /\ Goto("killed")
    /\ Fresh
    /\ UNCHANGED <<Env, disk>>

\* the script is started again on the same machine and directory
Restart ==
    /\ pc \in Terminal
    /\ restarts < MaxRestarts
    /\ restarts' = restarts + 1
    /\ Goto(IF script = "mpmath" THEN "m18" ELSE "p87")
    /\ Fresh
    /\ UNCHANGED <<script, cpu, disk>>

\* the statements of the two scripts, signals apart
MpRun ==
    \/ m_Validate \/ m_Load \/ m_ResumeMessage
    \/ m_Batches \/ m_Dispatch \/ m_Starmap
    \/ m_Reduce \/ m_AddTotal \/ m_AdvanceK \/ m_CheckSave
    \/ m_DerivePi \/ m_OpenPi \/ m_WritePi
    \/ m_OpenProgress \/ m_WriteProgress \/ m_OpenSum \/ m_WriteSum
    \/ m_MarkSaved

MpSignal ==
    \/ m_Interrupt \/ m_InterruptUncaught
    \/ m_FinalOpenProgress \/ m_FinalWriteProgress
    \/ m_FinalOpenSum \/ m_FinalWriteSum

PiRun ==
    \/ p_Load
    \/ p_Batches \/ p_Dispatch \/ p_Starmap
    \/ p_Reduce \/ p_AddTotal \/ p_AdvanceK \/ p_CheckSave
    \/ p_DerivePi \/ p_OpenPi \/ p_WritePi
    \/ p_OpenProgress \/ p_WriteProgress \/ p_OpenSum \/ p_WriteSum
    \/ p_MarkSaved

Next ==
    \/ MpRun \/ MpSignal \/ PiRun \/ p_Interrupt
    \/ m_WriteFails \/ p_WriteFails
    \/ Kill \/ Restart

Spec == Init /\ [][Next]_vars

\* ============================================== what a total is a sum of
\* the partial sums a total was built from
Positions(tot) ==
    UNION {{<<b, j>> : j \in 1..Len(tot[b])} : b \in 1..Len(tot)}

\* how often the term of index i has been added to tot
Occurrences(tot, i) ==
    Cardinality({p \in Positions(tot) :
                    tot[p[1]][p[2]].lo <= i /\ i < tot[p[1]][p[2]].hi})

\* tot is the sum of term(i) * (L + D*i) for exactly the i in [0, n): each
\* partial sum multiplies index i by the coefficient of i steps, lies inside
\* [0, n), and every index of [0, n) occurs once
SumOfFirst(tot, n) ==
    /\ \A p \in Positions(tot) :
          LET r == tot[p[1]][p[2]]
          IN  r.a0 = r.lo /\ 0 <= r.lo /\ r.lo <= r.hi /\ r.hi <= n
    /\ \A i \in 0..(n - 1) : Occurrences(tot, i) = 1

\* the snapshot a start of the script would read from the disk
DiskReadable(d) == d.progress # Empty /\ d.sum # Empty
DiskK(d)     == IF d.progress = Absent THEN 0 ELSE d.progress.k
DiskTotal(d) == IF d.sum = Absent THEN Zero ELSE d.sum.val

LoopHead == {"m79", "p54"}

\* ---------------------------------------------------------------- C1
\* C1: at every point at which (k, total) can be read, by the periodic
\* save, by the interrupt handler or by the start of the next round, of a
\* run started from zero progress, total is the sum of the terms with index
\* in [0, k), each once.
ObservationPoints ==
    LoopHead \cup {"m86", "m92", "m93", "m96", "m97", "m100", "m101", "m103"}
             \cup {"p66", "p72", "p73", "p76", "p77", "p80", "p81", "p83"}
             \cup MpHandler

C1_TotalIsSumBelowK ==
    (restarts = 0 /\ pc \in ObservationPoints) => SumOfFirst(total, k)

\* ---------------------------------------------------------------- C3
\* C3: at every point of a run with periodic saves at which the process can
\* be killed, the progress on disk and the total on disk are of one
\* snapshot: the total on disk is the sum of the terms below the k on disk.
C3_DiskPairIsOneSnapshot ==
    (restarts = 0 /\ pc \notin MpHandler \cup Terminal /\ DiskReadable(disk))
        => SumOfFirst(DiskTotal(disk), DiskK(disk))

\* ---------------------------------------------------------------- C7
\* C7: whenever the interruption arrives in the try block, the final save
\* of the handler leaves on disk a k and a total with total the sum of the
\* terms below k.
C7_FinalSaveIsCompletedRounds ==
    (restarts = 0 /\ pc = "exit0")
        => SumOfFirst(DiskTotal(disk), DiskK(disk))

\* ---------------------------------------------------------------- C8
\* C8: when the progress file or the total file is absent at startup, the
\* loaded pair is the identity snapshot k = 0, total = 0.
JustLoaded == {"m71", "p54"}

C8_AbsentRecordLoadsIdentity ==
    (pc \in JustLoaded /\ k = start_k
        /\ (disk.progress = Absent \/ disk.sum = Absent))
        => (k = 0 /\ total = Zero)

\* ---------------------------------------------------------------- C2
\* one round of the loop from the pair kt = <<k, total>>: lines 79-83
m_Round(kt, cores) ==
    LET bs == m_MakeBatches(kt[1], cores)
        rs == [i \in 1..Len(bs) |-> compute_batch(bs[i][1], bs[i][2])]
    IN  <<m_NextK(kt[1]), AddBatch(kt[2], ListSum(rs))>>

\* pi.py lines 54-62
p_Round(kt) ==
    LET bs == p_MakeBatches(kt[1], pi_terms_per_batch)
        rs == [i \in 1..Len(bs) |-> compute_terms(bs[i][1], bs[i][2])]
    IN  <<p_NextK(kt[1]), AddBatch(kt[2], ListSum(rs))>>

\* the pair after n rounds of one process started without files
RECURSIVE Uninterrupted(_)
Uninterrupted(n) ==
    IF n = 0 THEN <<0, Zero>>
    ELSE IF script = "mpmath" THEN m_Round(Uninterrupted(n - 1), CORES(cpu))
    ELSE p_Round(Uninterrupted(n - 1))

\* a write of the checkpoint pair is under way
TornPoints == {"m97", "m100", "m101", "p77", "p80", "p81"}

\* the process stops at a point where no write of the pair is under way
StopBetweenSaves == pc \notin TornPoints /\ Kill

ResumeNext == MpRun \/ PiRun \/ StopBetweenSaves \/ Restart

\* runs, stopped after complete saves and started again, without signals
SpecResume == Init /\ [][ResumeNext]_vars

\* C2: resume equivalence.  A process that was started from the checkpoint
\* of a prefix of m terms and has reached n terms holds, at the head of the
\* loop, the same (k, total) as one process that ran n terms from nothing.
C2_ResumeEquivalence ==
    pc \in LoopHead =>
        /\ k % Batch = 0
        /\ <<k, total>> = Uninterrupted(k \div Batch)

C2_Witness ==
    /\ pc \in LoopHead /\ restarts > 0
    /\ start_k > 0 /\ k > start_k
    /\ <<k, total>> = Uninterrupted(k \div Batch)

\* ---------------------------------------------------------------- C4
MaxOffset == 3

\* progress values at the head of the loop, multiples of the batch and not
StartKs == {r * Batch + d : r \in 0..(MaxRounds - 1), d \in 0..MaxOffset}

InitPartition ==
    /\ script \in Scripts
    /\ cpu \in (IF script = "mpmath" THEN 1..MaxCpu ELSE {4})
    /\ pc = IF script = "mpmath" THEN "m79" ELSE "p54"
    /\ k \in StartKs
    /\ start_k = k
    /\ total = Zero
    /\ batches = <<>>
    /\ results = <<>>
    /\ batch_sum = Zero
    /\ pi_val = NoValue
    /\ raised = 0
    /\ disk = NoFiles
    /\ restarts = 0

\* line 79 of compute_pi_mpmath.py and line 54 of pi.py on chosen k and W
SpecPartition == InitPartition /\ [][m_Batches \/ p_Batches]_vars

\* the half-open intervals of indices the dispatched batches stand for
BatchLo(b) == b[1]
BatchHi(b) == IF script = "mpmath" THEN b[1] + b[2] ELSE b[2]

Covering(x) ==
    Cardinality({i \in 1..Len(batches) :
                    BatchLo(batches[i]) <= x /\ x < BatchHi(batches[i])})

ExactCover(lo, hi) ==
    /\ \A i \in 1..Len(batches) :
          lo <= BatchLo(batches[i]) /\ BatchLo(batches[i]) < BatchHi(batches[i])
             /\ BatchHi(batches[i]) <= hi
    /\ \A x \in lo..(hi - 1) : Covering(x) = 1

EqualContiguous(w, n) ==
    /\ Len(batches) = w
    /\ \A i \in 1..Len(batches) : BatchHi(batches[i]) - BatchLo(batches[i]) = n
    /\ BatchLo(batches[1]) = k
    /\ \A i \in 1..(Len(batches) - 1) :
          BatchLo(batches[i + 1]) = BatchHi(batches[i])

\* C4: the batches dispatched in a round cover [k, k + batch) exactly, no
\* index twice and none missing; when the worker count W divides the batch
\* they are W contiguous ranges of batch / W indices each.
C4_BatchPartition ==
    /\ (script = "mpmath" /\ pc = "m80" /\ TERMS_PER_BATCH % CORES(cpu) = 0)
          => /\ ExactCover(k, k + TERMS_PER_BATCH)
             /\ EqualContiguous(CORES(cpu), TERMS_PER_BATCH \div CORES(cpu))
    /\ (script = "decimal" /\ pc = "p58")
          => /\ ExactCover(k, k + pi_terms_per_batch)
             /\ (pi_terms_per_batch % pi_CORES = 0
                   => EqualContiguous(pi_CORES, pi_terms_per_batch \div pi_CORES))

C4_Witness ==
    /\ script = "mpmath" /\ pc = "m80" /\ CORES(cpu) = 6 /\ k = TERMS_PER_BATCH + 1
    /\ Len(batches) = 6 /\ batches[6] = <<k + 750, 150>>

\* ---------------------------------------------------------------- C5
StartPoints == {"m18", "p87"}
LoadPoints  == {"m69", "p87"}

\* a step of one process after its load: not the load, not the end of the
\* process by a kill, not the start of the next process
StepOfRun == pc \notin LoadPoints /\ pc' \notin StartPoints \cup {"killed"}

\* C5: during a run k is the loaded starting value plus a whole number of
\* batches, and a step changes k by one batch or not at all.
C5_ProgressWholeBatches ==
    /\ [](k >= start_k /\ (k - start_k) % Batch = 0)
    /\ [][StepOfRun => (k' = k \/ k' = k + Batch)]_vars

C5_Witness ==
    /\ restarts > 0 /\ start_k = Batch /\ k = start_k + Batch
    /\ pc \in {"m85", "p65"}

\* ---------------------------------------------------------------- C6
InRound == {"m79", "m80", "m80r"}

\* C6: a round in which a worker raised changes neither k nor total, up to
\* and including the step at which starmap re-raises; that step ends the
\* process with the worker's error, and nothing but a new start follows.
C6_FailedRoundChangesNothing ==
    /\ [][(script = "mpmath" /\ pc \in InRound /\ pc' # "killed")
             => (k' = k /\ total' = total /\ disk' = disk)]_vars
    /\ [][(script = "mpmath" /\ pc = "m80r" /\ raised # 0
             /\ pc' \notin {"killed", "m107"})
             => pc' = "worker_error"]_vars
    /\ [][(script = "mpmath" /\ pc = "worker_error") => pc' = "m18"]_vars

C6_Witness ==
    /\ script = "mpmath" /\ pc = "worker_error" /\ raised = 2
    /\ k = TERMS_PER_BATCH /\ SumOfFirst(total, k)

\* ---------------------------------------------------------------- C9
SaveCompletes ==
    /\ script = "mpmath"
    /\ \/ pc = "m101" /\ pc' = "m103"
       \/ pc = "m110" /\ pc' = "exit0"

\* C9: at the completion of a save, periodic or final, of the snapshot
\* (k, total), get_saved_progress on the files returns exactly (k, total),
\* whatever an earlier save had left in them.
C9_SaveLoadRoundTrip ==
    [][SaveCompletes =>
          /\ ~get_saved_progress_raises(disk')
          /\ get_saved_progress(disk') = <<k, total>>]_vars

\* a second process has loaded the first save and completed a second one
C9_Witness ==
    /\ script = "mpmath" /\ pc = "m103"
    /\ start_k = TERMS_PER_BATCH /\ k = 2 * TERMS_PER_BATCH
    /\ get_saved_progress(disk) = <<k, total>>

\* ---------------------------------------------------------------- C10
Divisible == TERMS_PER_BATCH % CORES(cpu) = 0

\* C10: when the worker count does not divide TERMS_PER_BATCH the script
\* never gets past the check at import: it ends with the configuration
\* error, nothing is loaded, no batch is built or dispatched, no file is
\* written.
C10_DivisibilityValidation ==
    (script = "mpmath" /\ ~Divisible) =>
        /\ pc \in {"m18", "config_error", "keyboard_interrupt", "killed"}
        /\ k = 0 /\ total = Zero /\ batches = <<>> /\ results = <<>>
        /\ disk = NoFiles

C10_Witness ==
    /\ script = "mpmath" /\ CORES(cpu) = 7 /\ pc = "config_error"
    /\ disk = NoFiles /\ batches = <<>>

\* ===================================================== values of the series
\* The exact rational arithmetic of the two term functions, carried out in
\* the prime fields Z/p for the p of Moduli: a rational whose denominator p
\* does not divide has one image there, sums and products go to sums and
\* products, so two results that differ in some field differ as rationals.
L == 13591409
X == 640320
D == 545140134
MaxIndex == 5    \* the term functions are called on indices of 0..MaxIndex

Moduli == {10007, 10009}

Mod(x, p) == ((x % p) + p) % p
Mul(a, b, p) == (Mod(a, p) * Mod(b, p)) % p

RECURSIVE Pow(_, _, _)
Pow(b, e, p) ==
    IF e = 0 THEN 1
    ELSE IF e % 2 = 0 THEN LET h == Pow(b, e \div 2, p) IN Mul(h, h, p)
    ELSE Mul(b, Pow(b, e - 1, p), p)

\* numerator / denominator
Quotient(n, d, p) == Mul(n, Pow(Mod(d, p), p - 2, p), p)

\* X ** 3
X3(p) == Pow(Mod(X, p), 3, p)

\* L + 545140134 * i
Weight(i, p) == Mod(Mod(L, p) + Mul(D, i, p), p)

\* lines 37-39 and 45-47: a *= mpf(numerator) / mpf(denominator)
NextA(a, i, p) ==
    LET numerator   == Mod(0 - (6 * i + 1) * (2 * i + 1) * (6 * i + 5), p)
        denominator == Mul((i + 1) * (i + 1) * (i + 1), X3(p), p)
    IN  Mul(a, Quotient(numerator, denominator, p), p)

\* lines 36-39: for i in range(start_k), from a
RECURSIVE WarmUp(_, _, _, _)
WarmUp(a, i, start_k_, p) ==
    IF i >= start_k_ THEN a
    ELSE WarmUp(NextA(a, i, p), i + 1, start_k_, p)

\* lines 42-47: for i in range(start_k, end_k), from tot and a
RECURSIVE Accumulate(_, _, _, _, _)
Accumulate(tot, a, i, end_k, p) ==
    IF i >= end_k THEN tot
    ELSE Accumulate(Mod(tot + Mul(a, Weight(i, p), p), p),
                    NextA(a, i, p), i + 1, end_k, p)

\* mutant: the call starts from a = 1 whatever its first index is
chudnovsky_term_recursive_value_cold(start_k_, end_k, p) ==
    Accumulate(0, 1, start_k_, end_k, p)
\* lines 31-49
chudnovsky_term_recursive_value(start_k_, end_k, p) ==
    Accumulate(0, WarmUp(1, 0, start_k_, p), start_k_, end_k, p)

RECURSIVE factorial(_, _)
factorial(n, p) == IF n <= 0 THEN 1 ELSE Mul(n, factorial(n - 1, p), p)

\* pi.py lines 22-27
chudnovsky_term_value(k_, p) ==
    LET sign        == IF k_ % 2 = 0 THEN 1 ELSE p - 1
        numerator   == Mul(Mul(sign, factorial(6 * k_, p), p), Weight(k_, p), p)
        denominator == Mul(Mul(factorial(3 * k_, p),
                               Pow(factorial(k_, p), 3, p), p),
                           Pow(Mod(X, p), 3 * k_, p), p)
    IN  Quotient(numerator, denominator, p)

\* pi.py lines 30-31
RECURSIVE compute_terms_value(_, _, _)
compute_terms_value(start_k_, end_k, p) ==
    IF start_k_ >= end_k THEN 0
    ELSE Mod(compute_terms_value(start_k_, end_k - 1, p)
                + chudnovsky_term_value(end_k - 1, p), p)

\* the three calls (a, b), (b, c), (a, c) of a term function, a <= b <= c
InitTerms ==
    /\ script = "mpmath"
    /\ cpu = 1
    /\ pc = "call"
    /\ k = 0
    /\ start_k = 0
    /\ total = Zero
    /\ \E a \in 0..MaxIndex : \E b \in a..MaxIndex : \E c \in b..MaxIndex :
          batches = <<<<a, b>>, <<b, c>>, <<a, c>>>>
    /\ results = <<>>
    /\ batch_sum = Zero
    /\ pi_val = NoValue
    /\ raised = 0
    /\ disk = NoFiles
    /\ restarts = 0

\* each call evaluated by the recurrence, symbolically and in the fields,
\* and by the factorials
t_Call ==
    /\ pc = "call"
    /\ results' = [i \in 1..Len(batches) |->
          [range     |-> chudnovsky_term_recursive(batches[i][1], batches[i][2]),
           recursive |-> [p \in Moduli |->
              chudnovsky_term_recursive_value(batches[i][1], batches[i][2], p)],
           direct    |-> [p \in Moduli |->
              compute_terms_value(batches[i][1], batches[i][2], p)]]]
    /\ Goto("called")
    /\ UNCHANGED <<k, total, start_k, batches, batch_sum, pi_val, raised, Env, disk>>

SpecTerms == InitTerms /\ [][t_Call]_vars

\* ---------------------------------------------------------------- C11
\* C11: for every n of 0..MaxIndex, chudnovsky_term_recursive(0, n) equals
\* compute_terms(0, n), the sum of the factorial terms of the same range.
C11_RecurrenceEqualsFactorials ==
    pc = "called" =>
        \A i \in 1..Len(batches) :
            batches[i][1] = 0 => results[i].recursive = results[i].direct

\* ---------------------------------------------------------------- C19
\* the sum of two values
Plus(v, w) == [p \in Moduli |-> Mod(v[p] + w[p], p)]

\* C19: for a <= b <= c the recurrence sums of [a, b) and [b, c) add up to
\* the recurrence sum of [a, c): the call entering at b has applied b steps
\* when it emits term b, as the call entering at a has; and the sum of an
\* empty range [s, s) is 0.
C19_RangeAdditivity ==
    pc = "called" =>
        /\ Plus(results[1].recursive, results[2].recursive) = results[3].recursive
        /\ results[2].range.a0 = results[1].range.a0
                                    + (results[1].range.hi - results[1].range.lo)
        /\ results[1].range.hi = results[2].range.lo
        /\ results[1].range.lo = results[3].range.lo
        /\ results[2].range.hi = results[3].range.hi
        /\ \A i \in 1..Len(batches) :
              batches[i][1] = batches[i][2]
                 => /\ results[i].recursive = [p \in Moduli |-> 0]
                    /\ results[i].range.lo = results[i].range.hi

C19_Witness ==
    /\ pc = "called" /\ batches = <<<<1, 3>>, <<3, 5>>, <<1, 5>>>>
    /\ results[3].recursive # results[1].recursive
    /\ results[2].recursive # [p \in Moduli |-> 0]

\* ---------------------------------------------------------------- C12
\* the statements of the main loop: the process is computing rounds
PiLoop == {"p54", "p58", "p58r", "p59", "p60", "p62", "p65", "p66", "p72", "p73",
           "p76", "p77", "p80", "p81", "p83"}
Running == MpTry \cup PiLoop

\* C12: an interruption signal received while the process is computing
\* rounds never ends it with the uncaught KeyboardInterrupt (a failure
\* exit with no final save): it leads to the final save.
C12_InterruptIsGraceful ==
    [][~(pc \in Running /\ pc' = "keyboard_interrupt")]_vars

\* ---------------------------------------------------------------- C13
\* the statements of the periodic save, from the derivation of pi to the
\* reset of last_save
PeriodicSave == {"m86", "m92", "m93", "m96", "m97", "m100", "m101", "m103",
                 "p66", "p72", "p73", "p76", "p77", "p80", "p81", "p83"}
SaveCheck == {"m85", "p65"}
\* the ways out of the loop: a signal, a kill, a failed write
Signalled == {"killed", "m107", "keyboard_interrupt", "write_error"}

\* the round of the current batches is complete: its partial sums are
\* reduced, the batch sum is the last one added to total, and k is past it
RoundCompleted ==
    /\ batches # <<>>
    /\ Len(results) = Len(batches)
    /\ batch_sum = ListSum(results)
    /\ total # Zero /\ total[Len(total)] = batch_sum
    /\ k = BatchLo(batches[1]) + Batch

\* C13: the periodic save is evaluated once per completed round and never
\* mid-round: the clock is read only on the step that advances k, every
\* statement of the periodic save runs on a completed round, the loop's
\* writes to the files are statements of the periodic save, and the save,
\* unless a signal or an error ends it, is left only for the head of the
\* next round.
C13_SaveOncePerCompletedRound ==
    /\ [](pc \in PeriodicSave \cup SaveCheck => RoundCompleted)
    /\ [][pc' \in SaveCheck => pc \in {"m83", "p62"} /\ k' = k + Batch]_vars
    /\ [][(disk' # disk /\ pc \notin MpHandler) => pc \in PeriodicSave]_vars
    /\ [][(pc \in PeriodicSave /\ pc' \notin PeriodicSave \cup Signalled)
             => (pc \in {"m103", "p83"} /\ pc' \in LoopHead
                 /\ k' = k /\ total' = total)]_vars

C13_Witness ==
    /\ pc = "m97" /\ k = 2 * TERMS_PER_BATCH /\ Len(total) = 2
    /\ disk.progress = Empty /\ disk.pi = NstrDump(DerivePi(total))

\* ---------------------------------------------------------------- C14
\* a save has just completed: the periodic one (lines 100-101 done, 103
\* next) or the final one of the handler (line 110 done)
SaveCompleted == {"m103", "p83", "exit0"}

\* C14: after any completed save, periodic or final, the pi view file holds
\* C / total for the total the same save wrote to the running-total record.
C14_SaveWritesAllThree ==
    pc \in SaveCompleted =>
        /\ disk.pi \notin {Absent, Empty}
        /\ disk.pi.of = DiskTotal(disk)

\* ---------------------------------------------------------------- C15
\* the statements that derive pi and write the three files, in the loop
\* and in the handler, and the dispatch to the workers up to their return
DeriveAndWrite == PeriodicSave \cup MpHandler
WorkersBusy    == {"m80", "m80r", "p58", "p58r"}

\* C15: within a run total is changed only by the statement that adds the
\* round's batch sum to it, and to total + batch_sum; k is changed only by
\* the statement that advances it; deriving pi, writing the files and the
\* workers' computation leave both unchanged.
C15_OnlyAddBatchChangesTotal ==
    /\ [][(StepOfRun /\ total' # total)
             => (pc \in {"m82", "p60"} /\ total' = AddBatch(total, batch_sum)
                 /\ k' = k)]_vars
    /\ [][(StepOfRun /\ k' # k)
             => (pc \in {"m83", "p62"} /\ total' = total)]_vars
    /\ [][(pc \in DeriveAndWrite \cup WorkersBusy /\ pc' # "killed")
             => (total' = total /\ k' = k)]_vars

C15_Witness ==
    /\ pc = "m100" /\ Len(total) = 2 /\ k = 2 * TERMS_PER_BATCH
    /\ pi_val = DerivePi(total) /\ disk.progress = JsonDump(k)

\* ======================================================= the pool's barrier
\* starmap (line 80, pi.py line 58) seen from inside: the tasks are handed
\* to the workers, the workers finish in any order, each result is put at
\* its task's index, and the call returns when no task is pending.
TaskValue(b) ==
    IF script = "mpmath" THEN compute_batch(b[1], b[2])
    ELSE compute_terms(b[1], b[2])

Pending(i) == \A j \in 1..Len(results) : results[j] # TaskValue(batches[i])

FirstFree(rs) == CHOOSE j \in 1..Len(rs) :
                    rs[j] = NoValue /\ \A h \in 1..(j - 1) : rs[h] # NoValue

\* mutant: the results are kept in the order the workers finish
StoreResult_as_completed(rs, i, v) == [rs EXCEPT ![FirstFree(rs)] = v]

\* the result of task i goes to index i of the list starmap returns
StoreResult(rs, i, v) == [rs EXCEPT ![i] = v]

AtDispatch == {"m80", "p58"}
AtStarmap  == {"m80r", "p58r"}
AtReduce   == {"m81", "p59"}

b_Dispatch ==
    /\ pc \in AtDispatch
    /\ results' = [i \in 1..Len(batches) |-> NoValue]
    /\ Goto(IF script = "mpmath" THEN "m80r" ELSE "p58r")
    /\ UNCHANGED <<k, total, start_k, batches, batch_sum, pi_val, raised, Env, disk>>

b_WorkerReturns ==
    /\ pc \in AtStarmap
    /\ \E i \in 1..Len(batches) :
          /\ Pending(i)
          /\ results' = StoreResult(results, i, TaskValue(batches[i]))
    /\ UNCHANGED <<pc, k, total, start_k, batches, batch_sum, pi_val, raised, Env, disk>>

b_Starmap ==
    /\ pc \in AtStarmap
    /\ \A i \in 1..Len(batches) : ~Pending(i)
    /\ Goto(IF script = "mpmath" THEN "m81" ELSE "p59")
    /\ UNCHANGED <<Locals, Env, disk>>

BarrierNext ==
    \/ m_Validate \/ m_Load \/ m_ResumeMessage \/ m_Batches
    \/ p_Load \/ p_Batches
    \/ b_Dispatch \/ b_WorkerReturns \/ b_Starmap
    \/ m_Reduce \/ m_AddTotal \/ m_AdvanceK \/ m_CheckSave
    \/ m_DerivePi \/ m_OpenPi \/ m_WritePi
    \/ m_OpenProgress \/ m_WriteProgress \/ m_OpenSum \/ m_WriteSum
    \/ m_MarkSaved
    \/ p_Reduce \/ p_AddTotal \/ p_AdvanceK \/ p_CheckSave
    \/ p_DerivePi \/ p_OpenPi \/ p_WritePi
    \/ p_OpenProgress \/ p_WriteProgress \/ p_OpenSum \/ p_WriteSum
    \/ p_MarkSaved

SpecBarrier == Init /\ [][BarrierNext]_vars

\* ---------------------------------------------------------------- C16
\* the start indices of a list of partial sums ascend
Ascending(rs) ==
    \A i, j \in 1..Len(rs) : i < j => rs[i].hi <= rs[j].lo

\* every task of the round has its result
AllReturned == \A i \in 1..Len(batches) : results[i] # NoValue

\* C16: the reduction starts only after all the workers of the round have
\* returned; the partial sums are added in ascending order of their start
\* index, whatever the order in which the workers finished; so the pair
\* (k, total) at the head of each round is the same for every finishing
\* order.
C16_BarrierAndOrderedReduction ==
    /\ [](pc \in AtReduce =>
             /\ Len(results) = Len(batches)
             /\ \A i \in 1..Len(batches) : results[i] = TaskValue(batches[i])
             /\ Ascending(results))
    /\ [][pc' \in AtReduce => (pc \in AtStarmap /\ AllReturned)]_vars
    /\ [][(pc \in AtReduce /\ pc' # pc) =>
             (batch_sum' = ListSum(results) /\ Ascending(batch_sum'))]_vars
    /\ [](pc \in LoopHead => <<k, total>> = Uninterrupted(k \div Batch))

\* the last worker has returned before the first, in the second round
C16_Witness ==
    /\ pc \in AtStarmap /\ k = Batch /\ Len(batches) >= 3
    /\ results[1] = NoValue
    /\ results[Len(batches)] = TaskValue(batches[Len(batches)])

\* ---------------------------------------------------------------- C17
\* between two rounds: the round is reduced, added and k advanced (the
\* clock check and the periodic save), or the next one is not dispatched yet
RoundBoundary == LoopHead \cup SaveCheck \cup PeriodicSave

\* C17: the handler of the interruption is entered only at a round
\* boundary; a signal that arrives while a round is in flight does not
\* abort the round.
C17_InterruptAtRoundBoundary ==
    [][pc' = "m107" => pc \in RoundBoundary]_vars

\* ---------------------------------------------------------------- C18
\* the exits on a worker's exception re-raised by starmap and on an
\* exception of a checkpoint write
Fatal == {"worker_error", "write_error"}

\* C18: a worker failure or a failed write of a checkpoint file ends the
\* process in a terminal state with a non-zero status: the failing step
\* changes neither k, total nor the files, and after it the process writes
\* no file (no final save) and dispatches no round; only a new start of the
\* script follows.
C18_FatalIsTerminal ==
    /\ [](pc \in Fatal => pc \in Terminal \ {"exit0"})
    /\ [][pc' \in Fatal =>
             /\ pc \in AtStarmap \cup MpWrites \cup PiWrites
             /\ k' = k /\ total' = total /\ disk' = disk]_vars
    /\ [][(pc \in Fatal /\ pc' # pc) =>
             (pc' \in StartPoints /\ disk' = disk /\ restarts' = restarts + 1)]_vars

C18_Witness ==
    /\ pc = "write_error" /\ script = "mpmath"
    /\ k = TERMS_PER_BATCH /\ Len(total) = 1
    /\ disk.pi = NstrDump(DerivePi(total)) /\ disk.progress = Empty

\* ---------------------------------------------------------------- C20
\* C / total is about to be evaluated: by the resume message, which divides
\* when k is not 0 (line 71), or by the periodic save (line 86, pi.py 66)
PiEvaluated ==
    \/ pc = "m71" /\ k # 0
    \/ pc \in {"m86", "p66"}

\* C20: whenever C / total is evaluated, at the resume message after the
\* load and at each periodic save, whatever files are present or absent,
\* total is the non-zero sum of at least one completed round.
C20_TotalNonZeroWhenDivided ==
    PiEvaluated => (total # Zero /\ Len(total) >= 1)

====
